---- MODULE Spec2Model ----
(***************************************************************************)
(* wrabbit: pydantic models bound to RabbitMQ queues through pika.         *)
(*                                                                         *)
(* The model covers BaseModel.send, BaseModel.run_on_recieve (with the     *)
(* callback adapter it registers), Consumer.run_on_recieve, Consumer.run,  *)
(* the constructors of Producer and Consumer and Producer.send, together   *)
(* with the part of the broker these calls act on: declared queues,        *)
(* consumer registrations, messages and deliveries.                        *)
(*                                                                         *)
(* Abstractions of the broker (pika / RabbitMQ), which is not part of the  *)
(* repository:                                                             *)
(*  - a queue is a set of ready messages (delivery order is free);         *)
(*  - only the default exchange "" routes, by routing key = queue name; a  *)
(*    message for an undeclared queue or another exchange is dropped;      *)
(*  - prefetch limits are not enforced (more deliveries are allowed than   *)
(*    a real broker would make, never fewer);                              *)
(*  - re-declaring a queue with other options is accepted.                 *)
(***************************************************************************)
EXTENDS Integers, Sequences, FiniteSets, TLC

VARIABLES
    cons,       \* the Consumer object, None before it is constructed
    prod,       \* the Producer object, None before it is constructed
    conn,       \* the Consumer's connection/channel: "none" before it is
                \* opened, then "open" or "closed"
    queues,     \* names of the queues declared at the broker
    consumers,  \* consumer registrations on the Consumer's channel, in order
    running,    \* Consumer.run(): "notstarted", "active", or how it ended
    msgs,       \* the messages routed to a queue, with where each is now
    deliv,      \* deliveries to the callback adapter; delivery tag = index
    cur,        \* delivery tag the callback is working on, 0 when none
    acks,       \* delivery tags passed to channel.basic_ack, in order
    last        \* call log of SpecCalls, SpecSend and SpecObjects: the most
                \* recent call, its arguments and its outcome

vars ==
    <<cons, prod, conn, queues, consumers, running, msgs, deliv, cur, acks,
      last>>

----------------------------------------------------------------------------
\* Bounds of the model.

\* messages routed to queues in one behaviour
MaxMsgs == 2
\* consumer registrations held by the channel at one time
MaxConsumers == 2
\* parameters of a handler function
MaxParams == 2

----------------------------------------------------------------------------
\* Python values.

\* Optional[T]: None is the empty tuple, a supplied value v is <<v>>.
None == << >>
Some(v) == <<v>>

\* truthiness of a str | None, as tested by "x if x else y"
Truthy(o) == o # None /\ o[1] # ""

\* "kwargs = {} if kwargs is None": the dict an optional dict stands for
OrEmpty(o) == IF o = None THEN << >> ELSE o[1]

\* mutant: the union taken the other way round, kwargs | defaults
DictUnion_defaultsWin(defaults, kwargs) ==
    [k \in (DOMAIN defaults) \cup (DOMAIN kwargs) |->
        IF k \in DOMAIN defaults THEN defaults[k] ELSE kwargs[k]]

\* the dict union defaults | kwargs: the right operand wins
DictUnion(defaults, kwargs) ==
    [k \in (DOMAIN defaults) \cup (DOMAIN kwargs) |->
        IF k \in DOMAIN kwargs THEN kwargs[k] ELSE defaults[k]]

----------------------------------------------------------------------------
\* Message types (subclasses of wrabbit.BaseModel) and their instances.

Types == {"Order", "Ping"}

\* declared fields of a type, in declaration order
FieldsOf(cls) == IF cls = "Order" THEN <<"id", "total">> ELSE <<"id">>

FieldSet(cls) == {FieldsOf(cls)[i] : i \in DOMAIN FieldsOf(cls)}

Instances ==
    { [cls |-> "Order", fields |-> [id |-> i, total |-> 9]] : i \in 1..2 }
    \cup { [cls |-> "Ping", fields |-> [id |-> 1]] }

PingInstances == {i \in Instances : i.cls = "Ping"}

\* cls.queue_name(): the class name
queue_name(cls) == cls

\* self.json(): the fields as name/value pairs in declaration order; the
\* class itself is not part of the encoding
json(inst) ==
    [i \in DOMAIN FieldsOf(inst.cls) |->
        <<FieldsOf(inst.cls)[i], inst.fields[FieldsOf(inst.cls)[i]]>>]

HasField(body, f) == \E i \in DOMAIN body : body[i][1] = f
FieldValue(body, f) == body[CHOOSE i \in DOMAIN body : body[i][1] = f][2]

\* cls.parse_raw(body): an instance of cls built from the fields cls declares
\* (other fields are ignored); None stands for a raised ValidationError
parse_raw(cls, body) ==
    IF \A f \in FieldSet(cls) : HasField(body, f)
    THEN Some([cls |-> cls,
               fields |-> [f \in FieldSet(cls) |-> FieldValue(body, f)]])
    ELSE None

----------------------------------------------------------------------------
\* Defaults merged under the caller's options.

DefaultPublish == [exchange |-> ""]
DefaultQueue == [exclusive |-> FALSE, durable |-> TRUE, auto_delete |-> FALSE]
DefaultQos == [prefetch_count |-> 3]

\* routing key of send and queue of run_on_recieve
RoutingKey(cls, routing_key_override) ==
    IF Truthy(routing_key_override)
    THEN routing_key_override[1]
    ELSE queue_name(cls)

NoCall == [op |-> "none"]

----------------------------------------------------------------------------
\* Inputs.

\* routing_key_override arguments: absent, empty, a type's name, another name
Overrides == <<None, Some(""), Some("orders_v2"), Some("Order")>>

\* those of the message-flow specification
CoreOverrides == <<None, Some(""), Some("orders_v2")>>

\* publish_kwargs arguments of BaseModel.send
PublishKwargs ==
    << None,
       Some(<< >>),
       Some([exchange |-> "audit"]),
       Some([mandatory |-> TRUE]),
       Some([exchange |-> "", mandatory |-> TRUE]),
       Some([routing_key |-> "orders_v2"]) >>

\* keyword arguments of Consumer.run_on_recieve; an absent keyword is the
\* None default of BaseModel.run_on_recieve
RegKw(o, q, s) ==
    [routing_key_override |-> o, channel_queue_kwargs |-> q,
     channel_qos_kwargs |-> s]

\* no keyword argument at all
NoKw == RegKw(None, None, None)

CoreRegKwargs ==
    << NoKw,
       RegKw(Some("Order"), None, None),
       RegKw(Some("orders_v2"), None, None) >>

RegKwargs ==
    CoreRegKwargs \o
    << RegKw(Some(""), None, None),
       RegKw(None, Some(<< >>), Some(<< >>)),
       RegKw(None, Some([durable |-> FALSE]), None),
       RegKw(None, Some([durable |-> FALSE, auto_delete |-> TRUE]), None),
       RegKw(None, Some([passive |-> TRUE]), Some([prefetch_count |-> 1])),
       RegKw(None, None, Some([global_qos |-> TRUE])),
       RegKw(Some("orders_v2"), Some([exclusive |-> TRUE]),
             Some([prefetch_count |-> 1, global_qos |-> TRUE])),
       RegKw(None, Some([queue |-> "orders_v2"]), None) >>

\* annotation of one handler parameter: a message type, a union of message
\* types, or none at all
Annotations == Types \cup {"Union", "NoAnn"}

\* return annotation: not declared, declared None, declared anything else
Returns == {"absent", "None", "other"}

\* handler functions: their parameters' annotations and return annotation
Funcs ==
    [params : UNION {[1..n -> Annotations] : n \in 0..MaxParams},
     ret : Returns]

\* the plain handlers: one parameter annotated with a message type, -> None
IsPlain(f) ==
    f.ret = "None" /\ Len(f.params) = 1 /\ f.params[1] \in Types

\* the handlers of the message-flow specification
CoreFuncs ==
    {f \in Funcs : f.ret = "None" /\ \A i \in DOMAIN f.params :
                                        f.params[i] \in Types}

----------------------------------------------------------------------------
\* BaseModel.send

\* the basic_publish call send makes, or the TypeError python raises when
\* publish_kwargs repeats a keyword send passes itself
send(inst, routing_key_override, publish_kwargs) ==
    LET kwargs == DictUnion(DefaultPublish, OrEmpty(publish_kwargs))
        routing_key == RoutingKey(inst.cls, routing_key_override)
    IN  IF {"body", "routing_key"} \cap DOMAIN kwargs # {}
        THEN [result |-> "TypeError", calls |-> << >>]
        ELSE [result |-> "ok",
              calls |-> << [fn |-> "basic_publish", body |-> json(inst),
                            routing_key |-> routing_key,
                            kwargs |-> kwargs] >>]

\* the broker's handling of basic_publish: the default exchange routes to
\* the declared queue named by the routing key, anything else is dropped
Routed(call) == call.kwargs.exchange = "" /\ call.routing_key \in queues

\* the record of a send call in the call log
SendLog(inst, routing_key_override, publish_kwargs) ==
    LET out == send(inst, routing_key_override, publish_kwargs) IN
    [op |-> "send", inst |-> inst,
     routing_key_override |-> routing_key_override,
     publish_kwargs |-> publish_kwargs,
     result |-> out.result, calls |-> out.calls]

BaseModel_send(inst, routing_key_override, publish_kwargs) ==
    LET out == send(inst, routing_key_override, publish_kwargs)
        routed == SelectSeq(out.calls, Routed)
    IN
    /\ Len(msgs) < MaxMsgs
    /\ msgs' = msgs \o
         [i \in DOMAIN routed |->
            [inst |-> inst, override |-> routing_key_override,
             key |-> routed[i].routing_key,
             body |-> routed[i].body,
             where |-> "ready"]]
    /\ UNCHANGED <<conn, queues, consumers, running, deliv, cur, acks,
                 cons, prod>>

----------------------------------------------------------------------------
\* BaseModel.run_on_recieve and Consumer.run_on_recieve

\* mutant: the consumer is registered before the queue is declared
run_on_recieve_consumeFirst(cls, kw) ==
    LET channel_queue_kwargs ==
            DictUnion(DefaultQueue, OrEmpty(kw.channel_queue_kwargs))
        channel_qos_kwargs ==
            DictUnion(DefaultQos, OrEmpty(kw.channel_qos_kwargs))
        routing_key == RoutingKey(cls, kw.routing_key_override)
    IN  IF "queue" \in DOMAIN channel_queue_kwargs
        THEN [result |-> "TypeError", calls |-> << >>]
        ELSE [result |-> "ok",
              calls |-> << [fn |-> "basic_consume", queue |-> routing_key,
                            auto_ack |-> FALSE, cls |-> cls],
                           [fn |-> "queue_declare", queue |-> routing_key,
                            kwargs |-> channel_queue_kwargs],
                           [fn |-> "basic_qos", kwargs |-> channel_qos_kwargs]
                        >>]

\* mutant: the consumer is registered with automatic acknowledgement
run_on_recieve_autoAck(cls, kw) ==
    LET channel_queue_kwargs ==
            DictUnion(DefaultQueue, OrEmpty(kw.channel_queue_kwargs))
        channel_qos_kwargs ==
            DictUnion(DefaultQos, OrEmpty(kw.channel_qos_kwargs))
        routing_key == RoutingKey(cls, kw.routing_key_override)
    IN  IF "queue" \in DOMAIN channel_queue_kwargs
        THEN [result |-> "TypeError", calls |-> << >>]
        ELSE [result |-> "ok",
              calls |-> << [fn |-> "queue_declare", queue |-> routing_key,
                            kwargs |-> channel_queue_kwargs],
                           [fn |-> "basic_qos", kwargs |-> channel_qos_kwargs],
                           [fn |-> "basic_consume", queue |-> routing_key,
                            auto_ack |-> TRUE, cls |-> cls] >>]

\* the broker calls of cls.run_on_recieve(channel, **kw)(func)
run_on_recieve(cls, kw) ==
    LET channel_queue_kwargs ==
            DictUnion(DefaultQueue, OrEmpty(kw.channel_queue_kwargs))
        channel_qos_kwargs ==
            DictUnion(DefaultQos, OrEmpty(kw.channel_qos_kwargs))
        routing_key == RoutingKey(cls, kw.routing_key_override)
    IN  IF "queue" \in DOMAIN channel_queue_kwargs
        THEN [result |-> "TypeError", calls |-> << >>]
        ELSE [result |-> "ok",
              calls |-> << [fn |-> "queue_declare", queue |-> routing_key,
                            kwargs |-> channel_queue_kwargs],
                           [fn |-> "basic_qos", kwargs |-> channel_qos_kwargs],
                           [fn |-> "basic_consume", queue |-> routing_key,
                            auto_ack |-> FALSE, cls |-> cls] >>]

\* inspect.get_annotations(func) without its 'return' entry: the
\* annotations of the annotated parameters
ParamTypes(func) == SelectSeq(func.params, LAMBDA a : a # "NoAnn")

\* mutant: any declared return annotation is rejected, None included
set_up_run_anyReturn(func, kw) ==
    LET types == ParamTypes(func) IN
    IF func.ret # "absent"
    THEN [result |-> "ValueError: return", calls |-> << >>]
    ELSE IF Len(types) # 1
    THEN [result |-> "ValueError: argument", calls |-> << >>]
    ELSE IF types[1] \notin Types
    THEN [result |-> "AttributeError", calls |-> << >>]
    ELSE run_on_recieve(types[1], kw)

\* mutant: the signature is checked after the type has been registered
set_up_run_checkLast(func, kw) ==
    LET types == ParamTypes(func)
        out == IF types # << >> /\ types[1] \in Types
               THEN run_on_recieve(types[1], kw)
               ELSE [result |-> "AttributeError", calls |-> << >>]
    IN
    IF func.ret = "other"
    THEN [result |-> "ValueError: return", calls |-> out.calls]
    ELSE IF Len(types) # 1
    THEN [result |-> "ValueError: argument", calls |-> out.calls]
    ELSE out

\* set_up_run(func), the decorator Consumer.run_on_recieve(**kw) returns
set_up_run(func, kw) ==
    LET types == ParamTypes(func) IN
    IF func.ret = "other"
    THEN [result |-> "ValueError: return", calls |-> << >>]
    ELSE IF Len(types) # 1
    THEN [result |-> "ValueError: argument", calls |-> << >>]
    ELSE IF types[1] \notin Types
    THEN [result |-> "AttributeError", calls |-> << >>]
    ELSE run_on_recieve(types[1], kw)

IsCall(c, fn) == c.fn = fn

\* the record of a run_on_recieve call in the call log
RegLog(func, kw) ==
    LET out == set_up_run(func, kw) IN
    [op |-> "run_on_recieve", func |-> func, kw |-> kw,
     result |-> out.result, calls |-> out.calls]

Consumer_run_on_recieve(func, kw) ==
    LET out == set_up_run(func, kw)
        declared == SelectSeq(out.calls, LAMBDA c : IsCall(c, "queue_declare"))
        consumed == SelectSeq(out.calls, LAMBDA c : IsCall(c, "basic_consume"))
    IN
    /\ conn = "open"
    /\ running # "active"
    /\ Len(consumers) < MaxConsumers
    /\ queues' = queues \cup {declared[i].queue : i \in DOMAIN declared}
    /\ consumers' = consumers \o
         [i \in DOMAIN consumed |->
            [queue |-> consumed[i].queue, cls |-> consumed[i].cls,
             auto_ack |-> consumed[i].auto_ack]]
    /\ UNCHANGED <<conn, running, msgs, deliv, cur, acks,
                 cons, prod>>

----------------------------------------------------------------------------
\* Consumer.run and the callback adapter of BaseModel.run_on_recieve

\* run(): channel.start_consuming() processes events for as long as the
\* channel has consumers
Consumer_run ==
    /\ conn = "open"
    /\ running # "active"
    /\ running' = IF consumers = << >> THEN "no_consumers" ELSE "active"
    /\ UNCHANGED <<conn, queues, consumers, msgs, deliv, cur, acks, last,
                 cons, prod>>

\* The broker delivers ready message m to consumer c and the receive loop
\* calls callback(_ch, method, _properties, body) with the next delivery
\* tag.  The callback evaluates cls.parse_raw(body): a ValidationError
\* leaves the callback and run(); otherwise func is entered with the
\* instance.  A delivery to a consumer registered with auto_ack counts as
\* acknowledged at the broker as soon as it is made.
callback_enter(c, m) ==
    LET arg == parse_raw(consumers[c].cls, msgs[m].body) IN
    /\ conn = "open"
    /\ running = "active"
    /\ cur = 0
    /\ msgs[m].where = "ready"
    /\ msgs[m].key = consumers[c].queue
    /\ msgs' = [msgs EXCEPT ![m].where =
                    IF consumers[c].auto_ack THEN "acked" ELSE "unacked"]
    /\ deliv' = Append(deliv,
          [msg |-> m, queue |-> consumers[c].queue, cls |-> consumers[c].cls,
           arg |-> arg,
           st |-> IF arg = None THEN "parse_raised" ELSE "handling"])
    /\ cur' = IF arg = None THEN 0 ELSE Len(deliv) + 1
    /\ running' = IF arg = None THEN "callback_error" ELSE running
    /\ UNCHANGED <<conn, queues, consumers, acks, last,
                 cons, prod>>

\* func(...) returns: the callback goes on to basic_ack
func_return ==
    /\ cur # 0
    /\ deliv[cur].st = "handling"
    /\ deliv' = [deliv EXCEPT ![cur].st = "returned"]
    /\ UNCHANGED <<conn, queues, consumers, running, msgs, cur, acks, last,
                 cons, prod>>

\* mutant: the callback acknowledges in a finally clause, also when func
\* raises
func_raise_acked ==
    /\ cur # 0
    /\ deliv[cur].st = "handling"
    /\ deliv' = [deliv EXCEPT ![cur].st = "handler_raised"]
    /\ acks' = Append(acks, cur)
    /\ msgs' = [msgs EXCEPT ![deliv[cur].msg].where = "acked"]
    /\ cur' = 0
    /\ running' = "callback_error"
    /\ UNCHANGED <<conn, queues, consumers, last,
                 cons, prod>>

\* func(...) raises: the exception leaves the callback and run()
func_raise ==
    /\ cur # 0
    /\ deliv[cur].st = "handling"
    /\ deliv' = [deliv EXCEPT ![cur].st = "handler_raised"]
    /\ cur' = 0
    /\ running' = "callback_error"
    /\ UNCHANGED <<conn, queues, consumers, msgs, acks, last,
                 cons, prod>>

\* mutant: the callback acknowledges a fixed tag instead of its own
AckTag_first(tag) == 1

\* the delivery tag the callback acknowledges: method.delivery_tag
AckTag(tag) == tag

\* mutant: the receive loop returns after the first acknowledged message
callback_ack_once ==
    /\ cur # 0
    /\ deliv[cur].st = "returned"
    /\ acks' = Append(acks, cur)
    /\ cur' = 0
    /\ running' = IF conn = "open" THEN "returned" ELSE "conn_error"
    /\ msgs' = IF conn = "open"
               THEN [msgs EXCEPT ![deliv[cur].msg].where = "acked"]
               ELSE msgs
    /\ UNCHANGED <<conn, queues, consumers, deliv, last,
                 cons, prod>>

\* channel.basic_ack(delivery_tag=method.delivery_tag), then return res.  On
\* a closed channel the call raises and run() ends with it.
callback_ack ==
    /\ cur # 0
    /\ deliv[cur].st = "returned"
    /\ acks' = Append(acks, AckTag(cur))
    /\ cur' = 0
    /\ IF conn = "open"
       THEN /\ msgs' = [msgs EXCEPT ![deliv[AckTag(cur)].msg].where = "acked"]
            /\ UNCHANGED running
       ELSE /\ running' = "conn_error"
            /\ UNCHANGED msgs
    /\ UNCHANGED <<conn, queues, consumers, deliv, last,
                 cons, prod>>

\* The receive loop is stopped from outside (channel.stop_consuming): every
\* consumer of the channel is cancelled and start_consuming returns.
stop_consuming ==
    /\ conn = "open"
    /\ running = "active"
    /\ cur = 0
    /\ consumers' = << >>
    /\ running' = "stopped"
    /\ UNCHANGED <<conn, queues, msgs, deliv, cur, acks, last,
                 cons, prod>>

\* The connection fails: the broker requeues what the channel had not
\* acknowledged and drops its consumers; a waiting receive loop raises.
connection_lost ==
    /\ conn = "open"
    /\ conn' = "closed"
    /\ consumers' = << >>
    /\ msgs' = [m \in DOMAIN msgs |->
                  IF msgs[m].where = "unacked"
                  THEN [msgs[m] EXCEPT !.where = "ready"] ELSE msgs[m]]
    /\ running' = IF running = "active" /\ cur = 0
                  THEN "conn_error" ELSE running
    /\ UNCHANGED <<queues, deliv, cur, acks, last,
                 cons, prod>>

----------------------------------------------------------------------------
\* Producer and Consumer: construction and Producer.send

\* the connection-parameter options a Consumer uses when the caller passes
\* no pika_connection_parameters_kwargs
DefaultConnection == [heartbeat |-> 360]

\* arguments of the constructors
CtorArgs(host, parameters_kwargs, connection_kwargs, channel_kwargs) ==
    [host |-> host,
     pika_connection_parameters_kwargs |-> parameters_kwargs,
     pika_connection_kwargs |-> connection_kwargs,
     pika_channel_kwargs |-> channel_kwargs]

\* host only
HostOnly == CtorArgs("localhost", None, None, None)

CtorInputs ==
    << HostOnly,
       CtorArgs("localhost", Some(<< >>), Some(<< >>), Some(<< >>)),
       CtorArgs("localhost", Some([port |-> 5673]), None, None),
       CtorArgs("localhost", Some([heartbeat |-> 60]), None, None),
       CtorArgs("mq", Some([heartbeat |-> 60, port |-> 5673]), None,
                Some([channel_number |-> 7])),
       CtorArgs("mq", None, None, Some([channel_number |-> 7])),
       CtorArgs("mq", Some([host |-> "mq"]), None, None) >>

\* pika.ConnectionParameters(host, **kwargs); None stands for the TypeError
\* python raises when kwargs repeats the keyword host
ConnectionParameters(host, kwargs) ==
    IF "host" \in DOMAIN kwargs
    THEN None
    ELSE Some([k \in {"host"} \cup DOMAIN kwargs |->
                  IF k = "host" THEN host ELSE kwargs[k]])

\* the object a constructor builds from the connection-parameter options it
\* settled on: its _channel is connection.channel(**pika_channel_kwargs) of
\* pika.BlockingConnection(connection_parameters, **pika_connection_kwargs)
Construct(class, args, parameters_kwargs) ==
    LET connection_parameters ==
            ConnectionParameters(args.host, parameters_kwargs) IN
    IF connection_parameters = None
    THEN [result |-> "TypeError", obj |-> None]
    ELSE [result |-> "ok",
          obj |-> Some(
            [class |-> class,
             _channel |->
               [connection |->
                  [parameters |-> connection_parameters[1],
                   kwargs |-> OrEmpty(args.pika_connection_kwargs)],
                kwargs |-> OrEmpty(args.pika_channel_kwargs)]])]

\* Producer(host, ...)
Producer(args) ==
    Construct("Producer", args,
              OrEmpty(args.pika_connection_parameters_kwargs))

\* Consumer(host, ...)
Consumer(args) ==
    Construct("Consumer", args,
              IF args.pika_connection_parameters_kwargs = None
              THEN DefaultConnection
              ELSE args.pika_connection_parameters_kwargs[1])

\* the record of a constructor call in the call log
CtorLog(class, args, out) ==
    [op |-> class, args |-> args, result |-> out.result, obj |-> out.obj]

\* Consumer.__init__: the connection and the channel are opened
Consumer_init(args) ==
    LET out == Consumer(args) IN
    /\ cons = None
    /\ cons' = out.obj
    /\ conn' = IF out.result = "ok" THEN "open" ELSE conn
    /\ last' = CtorLog("Consumer", args, out)
    /\ UNCHANGED <<prod, queues, consumers, running, msgs, deliv, cur, acks>>

\* Producer.__init__
Producer_init(args) ==
    LET out == Producer(args) IN
    /\ prod = None
    /\ prod' = out.obj
    /\ last' = CtorLog("Producer", args, out)
    /\ UNCHANGED <<cons, conn, queues, consumers, running, msgs, deliv, cur,
                   acks>>

\* mutant: a failed publish is attempted a second time
ProducerSend_retry(p, inst, fails) ==
    LET out == send(inst, None, None)
        calls == [i \in DOMAIN out.calls |->
                    [channel |-> p._channel, call |-> out.calls[i]]]
    IN  [result |-> out.result,
         calls |-> IF fails THEN calls \o calls ELSE calls]

\* p.send(inst): model.send(self._channel), the calls of send made on the
\* Producer's channel; fails tells whether basic_publish raises (a closed
\* channel or connection), in which case the error is the outcome of send
ProducerSend(p, inst, fails) ==
    LET out == send(inst, None, None) IN
    [result |-> IF fails THEN "AMQPError" ELSE out.result,
     calls |-> [i \in DOMAIN out.calls |->
                  [channel |-> p._channel, call |-> out.calls[i]]]]

\* the record of a Producer.send call in the call log
ProducerSendLog(p, inst, fails) ==
    LET out == ProducerSend(p, inst, fails) IN
    [op |-> "Producer.send", inst |-> inst, fails |-> fails,
     result |-> out.result, calls |-> out.calls]

\* Producer.send: a publish that did not raise reaches the broker
Producer_send(inst, fails) ==
    LET out == ProducerSend(prod[1], inst, fails)
        published == IF out.result = "ok" THEN out.calls ELSE << >>
        routed == SelectSeq(published, LAMBDA c : Routed(c.call))
    IN
    /\ prod # None
    /\ Len(msgs) < MaxMsgs
    /\ msgs' = msgs \o
         [i \in DOMAIN routed |->
            [inst |-> inst, override |-> None,
             key |-> routed[i].call.routing_key,
             body |-> routed[i].call.body,
             where |-> "ready"]]
    /\ last' = ProducerSendLog(prod[1], inst, fails)
    /\ UNCHANGED <<cons, prod, conn, queues, consumers, running, deliv, cur,
                   acks>>

----------------------------------------------------------------------------
\* Specifications.

\* A Consumer and a Producer have been constructed against a broker with no
\* queues; nothing has been registered, published or run.
Init ==
    /\ cons = Consumer(HostOnly).obj
    /\ prod = Producer(HostOnly).obj
    /\ conn = "open"
    /\ queues = {}
    /\ consumers = << >>
    /\ running = "notstarted"
    /\ msgs = << >>
    /\ deliv = << >>
    /\ cur = 0
    /\ acks = << >>
    /\ last = NoCall

\* The message flow: registration, publishing, the receive loop.
Next ==
    \/ \E f \in CoreFuncs, k \in DOMAIN CoreRegKwargs :
          Consumer_run_on_recieve(f, CoreRegKwargs[k]) /\ UNCHANGED last
    \/ \E inst \in Instances, o \in DOMAIN CoreOverrides :
          BaseModel_send(inst, CoreOverrides[o], None) /\ UNCHANGED last
    \/ Consumer_run
    \/ \E c \in DOMAIN consumers, m \in DOMAIN msgs : callback_enter(c, m)
    \/ func_return
    \/ func_raise
    \/ callback_ack
    \/ stop_consuming
    \/ connection_lost

Spec == Init /\ [][Next]_vars

\* The calls and their options: registration of every handler signature
\* without keyword arguments and of the plain handlers with every choice of
\* keyword arguments; sends of a Ping with every choice of publish options
\* (SpecSend varies the instance and the routing key).
NextCalls ==
    \/ \E f \in Funcs, k \in DOMAIN RegKwargs :
          /\ IsPlain(f) \/ RegKwargs[k] = NoKw
          /\ Consumer_run_on_recieve(f, RegKwargs[k])
          /\ last' = RegLog(f, RegKwargs[k])
    \/ \E inst \in PingInstances, k \in DOMAIN PublishKwargs :
          /\ BaseModel_send(inst, None, PublishKwargs[k])
          /\ last' = SendLog(inst, None, PublishKwargs[k])

SpecCalls == Init /\ [][NextCalls]_vars

\* The queues of an earlier run of the consumers are still declared (they
\* are durable by default); nothing consumes from them.
InitSend ==
    /\ cons = Consumer(HostOnly).obj
    /\ prod = Producer(HostOnly).obj
    /\ conn = "open"
    /\ queues = Types \cup {"orders_v2"}
    /\ consumers = << >>
    /\ running = "notstarted"
    /\ msgs = << >>
    /\ deliv = << >>
    /\ cur = 0
    /\ acks = << >>
    /\ last = NoCall

\* Publishing over all instances, routing-key overrides and options.
NextSend ==
    \E inst \in Instances, o \in DOMAIN Overrides,
       k \in DOMAIN PublishKwargs :
        /\ BaseModel_send(inst, Overrides[o], PublishKwargs[k])
        /\ last' = SendLog(inst, Overrides[o], PublishKwargs[k])

SpecSend == InitSend /\ [][NextSend]_vars

\* Nothing has been constructed; the queues of an earlier run are declared.
InitObjects ==
    /\ cons = None
    /\ prod = None
    /\ conn = "none"
    /\ queues = Types
    /\ consumers = << >>
    /\ running = "notstarted"
    /\ msgs = << >>
    /\ deliv = << >>
    /\ cur = 0
    /\ acks = << >>
    /\ last = NoCall

\* Construction of the Consumer and of the Producer over the constructor
\* arguments, and Producer.send with publishes that succeed or raise.
NextObjects ==
    \/ \E a \in DOMAIN CtorInputs : Consumer_init(CtorInputs[a])
    \/ \E a \in DOMAIN CtorInputs : Producer_init(CtorInputs[a])
    \/ \E inst \in Instances, fails \in BOOLEAN : Producer_send(inst, fails)

SpecObjects == InitObjects /\ [][NextObjects]_vars

----------------------------------------------------------------------------
\* Claims about the callback adapter and the receive loop (Spec).

\* how often delivery tag t was passed to basic_ack
AckCount(t) == Cardinality({i \in DOMAIN acks : acks[i] = t})

Raised == {"parse_raised", "handler_raised"}

\* C1: a delivery whose body deserialized and whose handler returned is
\* acknowledged exactly once, with its own delivery tag, and only after the
\* handler has returned: no tag is acknowledged twice, a tag is acknowledged
\* only when its handler has returned (never while the handler is being
\* entered or is running), and once the callback of a returned handler is
\* over its tag has been acknowledged; while the channel is open the broker
\* then holds the delivery's own message as acknowledged.
C1_AckOnceAfterReturn ==
    /\ \A i \in DOMAIN acks : acks[i] \in DOMAIN deliv
    /\ \A t \in DOMAIN deliv :
          /\ AckCount(t) <= 1
          /\ AckCount(t) = 1 => deliv[t].st = "returned"
          /\ (deliv[t].st = "returned" /\ cur # t) => AckCount(t) = 1
          /\ (AckCount(t) = 1 /\ conn = "open")
                => msgs[deliv[t].msg].where = "acked"

\* two deliveries, both handled and acknowledged, the second with tag 2
C1_Witness ==
    /\ Len(deliv) = 2
    /\ \A t \in DOMAIN deliv : deliv[t].st = "returned"
    /\ acks = <<1, 2>>

\* C2: a delivery whose deserialization or handler raised is never passed to
\* basic_ack, and its message stays unacknowledged at the broker (requeued
\* by the broker, not acknowledged, once the connection is gone).
C2_NoAckOnRaise ==
    \A t \in DOMAIN deliv :
        deliv[t].st \in Raised =>
            /\ AckCount(t) = 0
            /\ msgs[deliv[t].msg].where =
                  (IF conn = "open" THEN "unacked" ELSE "ready")

\* one delivery failed in parse_raw and another in the handler
C2_Witness ==
    /\ \E t \in DOMAIN deliv : deliv[t].st = "parse_raised"
    /\ \E t \in DOMAIN deliv : deliv[t].st = "handler_raised"
    /\ conn = "open"

\* C3 as stated: a run() blocked in the receive loop ends only when the loop
\* is stopped from outside or the connection fails.
C3_EndsOnlyOnStopOrFailure ==
    [][(running = "active" /\ running' # "active")
          => (running' = "stopped" \/ conn' = "closed")]_vars

\* a callback raises in this step: a delivery enters with a body parse_raw
\* rejects, or a running handler raises
CallbackRaises ==
    \E t \in DOMAIN deliv' :
        /\ deliv'[t].st \in Raised
        /\ t \in DOMAIN deliv => deliv[t].st = "handling"

\* C3 amended: run() ends only when the loop is stopped from outside (its
\* consumers are cancelled), the connection is closed, a callback raises
\* (parse_raw or the handler; the exception leaves run()), or run() is called
\* on a channel without consumers and returns at once.  A callback that
\* returns never ends it.
C3_EndsOnlyOnStopFailureOrRaise ==
    [][(running' # running /\ running' # "active")
          => \/ running' = "stopped" /\ cur = 0 /\ consumers' = << >>
             \/ conn' = "closed"
             \/ running' = "callback_error" /\ CallbackRaises
             \/ running' = "no_consumers" /\ running # "active"
                   /\ consumers = << >>]_vars

\* run() has ended because a handler raised, with the connection open
C3_Witness ==
    /\ running = "callback_error"
    /\ conn = "open"
    /\ \E t \in DOMAIN deliv : deliv[t].st = "handler_raised"

----------------------------------------------------------------------------
\* Claims about handler registration and the options of the calls
\* (SpecCalls, SpecSend).

IsReg == last.op = "run_on_recieve"
IsSend == last.op = "send"

ValueErrors == {"ValueError: return", "ValueError: argument"}

\* C4 as stated: registration succeeds for a handler with exactly one
\* parameter, annotated with a message type (and an acceptable return
\* annotation), and fails with a ValueError for a handler with no parameter
\* or more than one.
C4_OneParameterOrError ==
    (IsReg /\ last.kw = NoKw) =>
        /\ (/\ Len(last.func.params) = 1
            /\ last.func.params[1] \in Types
            /\ last.func.ret # "other") => last.result = "ok"
        /\ Len(last.func.params) # 1 => last.result \in ValueErrors

\* C5: a handler whose return annotation is declared and not None is
\* rejected with the ValueError about the return value and nothing is called
\* on the channel; a handler whose return annotation is absent or None is
\* never rejected for it: the outcome is the same with either.
C5_ReturnAnnotation ==
    IsReg =>
        /\ last.func.ret = "other" =>
              (last.result = "ValueError: return" /\ last.calls = << >>)
        /\ last.func.ret # "other" =>
              /\ last.result # "ValueError: return"
              /\ \A r \in Returns \ {"other"} :
                    set_up_run([last.func EXCEPT !.ret = r], last.kw).result
                        = last.result

\* an otherwise plain handler declared "-> other" has just been rejected
C5_Witness ==
    /\ IsReg
    /\ last.func = [params |-> <<"Order">>, ret |-> "other"]
    /\ last.result = "ValueError: return"
    /\ consumers = << >>

\* C6 as stated: no queue has two consumer registrations on the channel.
C6_OneConsumerPerQueue ==
    \A i, j \in DOMAIN consumers :
        consumers[i].queue = consumers[j].queue => i = j

\* the routing key the claim expects: the override when one is supplied,
\* the type's name otherwise
ExpectedKey(cls, routing_key_override) ==
    IF routing_key_override # None
    THEN routing_key_override[1]
    ELSE cls

\* C7 as stated: send publishes with, and run_on_recieve declares and
\* consumes, the override whenever one is supplied and the type's name
\* otherwise.
C7_OverrideIsRoutingKey ==
    /\ (IsSend /\ last.result = "ok") =>
          last.calls[1].routing_key
              = ExpectedKey(last.inst.cls, last.routing_key_override)
    /\ (IsReg /\ last.result = "ok") =>
          \A i \in DOMAIN last.calls :
              ~IsCall(last.calls[i], "basic_qos") =>
                  last.calls[i].queue
                      = ExpectedKey(ParamTypes(last.func)[1],
                                    last.kw.routing_key_override)

\* passed is defaults overridden key by key by caller
Overridden(passed, defaults, caller) ==
    /\ DOMAIN passed = (DOMAIN defaults) \cup (DOMAIN caller)
    /\ \A k \in DOMAIN caller : passed[k] = caller[k]
    /\ \A k \in (DOMAIN defaults) \ (DOMAIN caller) : passed[k] = defaults[k]

----------------------------------------------------------------------------
\* Claims about routing and delivery (Spec).

\* the consumer of a handler for cls on the queue named after cls
TypeConsumer(cls) ==
    [queue |-> queue_name(cls), cls |-> cls, auto_ack |-> FALSE]

\* C9 as stated, for the deliveries made: with a handler for its type
\* registered on the queue named after the type, a message sent without an
\* override is delivered to a handler for that type, which receives an
\* instance equal to the one sent.
C9_DefaultSendReachesTypeHandler ==
    \A t \in DOMAIN deliv :
        LET m == msgs[deliv[t].msg] IN
        (/\ m.override = None
         /\ \E c \in DOMAIN consumers : consumers[c] = TypeConsumer(m.inst.cls))
            => (deliv[t].cls = m.inst.cls /\ deliv[t].arg = Some(m.inst))

\* C10 as stated: a message sent with an override other than its type's name
\* is never delivered to a consumer of the queue named after the type, and
\* every delivery is of a message published with the consumer's queue as
\* routing key.
C10_OverrideNeverReachesTypeQueue ==
    \A t \in DOMAIN deliv :
        LET m == msgs[deliv[t].msg] IN
        /\ m.key = deliv[t].queue
        /\ (m.override # None /\ m.override[1] # queue_name(m.inst.cls))
              => deliv[t].queue # queue_name(m.inst.cls)

----------------------------------------------------------------------------
\* Claims about union annotations (SpecCalls) and construction (SpecObjects).

\* C11 as stated: a handler whose single parameter is annotated with a union
\* of message types (and whose return annotation is acceptable) is
\* registered for each member type: for each a queue is declared and a
\* consumer callback deserializing into that type is registered.
C11_UnionRegistersEachMember ==
    (/\ IsReg
     /\ last.kw = NoKw
     /\ last.func.params = <<"Union">>
     /\ last.func.ret # "other") =>
        /\ last.result = "ok"
        /\ \A cls \in Types :
              /\ \E i \in DOMAIN last.calls :
                    /\ IsCall(last.calls[i], "queue_declare")
                    /\ last.calls[i].queue = queue_name(cls)
              /\ \E i \in DOMAIN last.calls :
                    /\ IsCall(last.calls[i], "basic_consume")
                    /\ last.calls[i].cls = cls
              /\ queue_name(cls) \in queues
              /\ \E c \in DOMAIN consumers : consumers[c].cls = cls

IsCtor(class) == last.op = class /\ last.result = "ok"

\* the heartbeat option of the connection an object was constructed with,
\* None when the connection parameters carry none
Heartbeat(obj) ==
    LET parameters == obj._channel.connection.parameters IN
    IF "heartbeat" \in DOMAIN parameters
    THEN Some(parameters.heartbeat)
    ELSE None

\* C12 as stated: a Consumer constructed without an explicit heartbeat
\* option has heartbeat 360 in its connection parameters, whatever else the
\* caller supplies (an explicit heartbeat is the caller's); the connection
\* parameters of a Producer carry a heartbeat only when the caller supplied
\* it.
C12_ConsumerDefaultHeartbeat ==
    /\ IsCtor("Consumer") =>
          LET caller == OrEmpty(last.args.pika_connection_parameters_kwargs)
          IN  Heartbeat(last.obj[1]) =
                 (IF "heartbeat" \in DOMAIN caller
                  THEN Some(caller.heartbeat)
                  ELSE Some(360))
    /\ IsCtor("Producer") =>
          LET caller == OrEmpty(last.args.pika_connection_parameters_kwargs)
          IN  Heartbeat(last.obj[1]) =
                 (IF "heartbeat" \in DOMAIN caller
                  THEN Some(caller.heartbeat)
                  ELSE None)

\* C13: each Producer.send(message) makes exactly one basic_publish call, on
\* the channel the Producer opened at construction, with exchange "",
\* routing key the name of the message's type and body the serialized
\* message; when the publish raises, the error is the outcome of the call
\* and there is no second attempt; when it does not, the call succeeds.
C13_ProducerSendPublishesOnce ==
    last.op = "Producer.send" =>
        /\ Len(last.calls) = 1
        /\ last.calls[1].channel = prod[1]._channel
        /\ IsCall(last.calls[1].call, "basic_publish")
        /\ last.calls[1].call.kwargs = [exchange |-> ""]
        /\ last.calls[1].call.routing_key = last.inst.cls
        /\ last.calls[1].call.body = json(last.inst)
        /\ last.result = (IF last.fails THEN "AMQPError" ELSE "ok")

\* a publish of an Order has just failed on the channel of a Producer
\* constructed with a channel number, after one that reached the broker
C13_Witness ==
    /\ last.op = "Producer.send"
    /\ last.fails
    /\ last.inst.cls = "Order"
    /\ last.calls[1].channel.kwargs = [channel_number |-> 7]
    /\ Len(msgs) = 1

----------------------------------------------------------------------------
\* Claims about the steps of a registration (SpecCalls).

\* C14: in every registration that goes through, each basic_consume call is
\* preceded by a queue_declare call for the same queue and, between the two,
\* a basic_qos call; the registration makes exactly these three calls.  On
\* the channel, no consumer is ever registered on a queue that has not been
\* declared.
C14_DeclareQosConsume ==
    /\ (IsReg /\ last.result = "ok") =>
          /\ Len(last.calls) = 3
          /\ \A i \in DOMAIN last.calls :
                IsCall(last.calls[i], "basic_consume") =>
                    \E d, q \in DOMAIN last.calls :
                        /\ d < q
                        /\ q < i
                        /\ IsCall(last.calls[d], "queue_declare")
                        /\ last.calls[d].queue = last.calls[i].queue
                        /\ IsCall(last.calls[q], "basic_qos")
    /\ \A c \in DOMAIN consumers : consumers[c].queue \in queues

\* a handler for Ping has just been registered on the queue orders_v2, which
\* no earlier registration had declared
C14_Witness ==
    /\ IsReg
    /\ last.result = "ok"
    /\ last.kw.routing_key_override = Some("orders_v2")
    /\ Len(consumers) = 1
    /\ consumers[1].queue = "orders_v2"
    /\ consumers[1].cls = "Ping"
    /\ queues = {"orders_v2"}

\* C15: a registration rejected for its signature (ValueError: a return
\* annotation other than None, or not exactly one annotated parameter) makes
\* no call on the channel and leaves the broker as it was: the declared
\* queues, the consumers, the messages and the connection are unchanged by
\* the step.
C15_RejectedLeavesBrokerUnchanged ==
    [][(last'.op = "run_on_recieve" /\ last'.result \in ValueErrors)
          => /\ last'.calls = << >>
             /\ UNCHANGED <<queues, consumers, msgs, conn, running>>]_vars

\* a handler with two annotated parameters has just been rejected, with the
\* queue and the consumer of an earlier registration in place
C15_Witness ==
    /\ IsReg
    /\ last.result = "ValueError: argument"
    /\ Len(last.func.params) = 2
    /\ Len(consumers) = 1
    /\ queues # {}

----------------------------------------------------------------------------
\* Claim about message loss (Spec).

\* C16: consumers are registered without automatic acknowledgement, and the
\* message of every delivery is either still held by the broker, ready in
\* its queue or delivered and unacknowledged, or acknowledged with a
\* delivery of it whose handler returned and whose tag was passed to
\* basic_ack.
C16_NoDeliveredMessageLost ==
    /\ \A c \in DOMAIN consumers : ~consumers[c].auto_ack
    /\ \A t \in DOMAIN deliv :
          \/ msgs[deliv[t].msg].where \in {"ready", "unacked"}
          \/ /\ msgs[deliv[t].msg].where = "acked"
             /\ \E u \in DOMAIN deliv :
                   /\ deliv[u].msg = deliv[t].msg
                   /\ deliv[u].st = "returned"
                   /\ \E i \in DOMAIN acks : acks[i] = u

\* one delivered message is acknowledged; another, whose handler was
\* running when the connection failed, is back in its queue
C16_Witness ==
    /\ conn = "closed"
    /\ \E t \in DOMAIN deliv : msgs[deliv[t].msg].where = "acked"
    /\ \E t \in DOMAIN deliv :
          /\ msgs[deliv[t].msg].where = "ready"
          /\ deliv[t].st # "returned"

====
